---- MODULE Spec2Model ----
(***************************************************************************)
(* A model of the flight network of src/computation.py: the Airport and    *)
(* Flight records, the FlightNetwork graph (airports, flights) and its     *)
(* operations add_airport, add_flight, total_layover, find_all_routes,     *)
(* find_paths, find_shortest_time_path, find_shortest_layover and          *)
(* find_routes_by_airline.                                                 *)
(*                                                                         *)
(* Python objects.  Flight defines neither __eq__ nor __hash__, so the set *)
(* flights[icao] holds Flight objects by identity.  A Flight object is a   *)
(* record of its fields plus "id", the serial number of the object among   *)
(* the objects created with the same field values: two records that differ *)
(* only in id are two distinct objects with field-wise identical contents. *)
(* Times are integers (one unit = one day, so that timedelta.max fits).    *)
(* The iteration order of a Python set is not specified: every query takes *)
(* as an input an order for each set of flights.                           *)
(***************************************************************************)
EXTENDS Integers, Sequences, FiniteSets, TLC

VARIABLES airports, flights, call, raised, returned

vars == <<airports, flights, call, raised, returned>>

(* ------------------------------ bounds -------------------------------- *)

\* The most Flight objects a network holds.
MaxFlights == 3

\* The longest list of flights passed to total_layover.
MaxRoute == 2

\* The ICAO codes airports and queries are drawn from.
ICAO == {"AAAA", "BBBB", "CCCC"}

(* ---------------------------- data model ------------------------------ *)

\* Airport.__init__; city_iata, latitude and longitude are stored and never
\* read by FlightNetwork, and are left out.
Airport(icao, name, country) ==
    [icao |-> icao, name |-> name, country |-> country]

\* Flight.__init__, with the identity of the object as id.
Flight(id, flight_number, airline_name, airline_icao, origin, destination, departure_time, arrival_time) ==
    [id |-> id, flight_number |-> flight_number, airline_name |-> airline_name,
     airline_icao |-> airline_icao, origin |-> origin,
     destination |-> destination, departure_time |-> departure_time,
     arrival_time |-> arrival_time]

\* The fields of a Flight object, without its identity.
Fields(flight) ==
    [flight_number |-> flight.flight_number, airline_name |-> flight.airline_name,
     airline_icao |-> flight.airline_icao, origin |-> flight.origin,
     destination |-> flight.destination,
     departure_time |-> flight.departure_time,
     arrival_time |-> flight.arrival_time]

\* A duration that forgets the departure time.
get_duration_arrival_only(flight) == flight.arrival_time

\* Flight.get_duration
get_duration(flight) == flight.arrival_time - flight.departure_time

\* timedelta.max, in days.
timedelta_max == 999999999

\* No exception was raised / the exception raised.
NoError == [type |-> "None", msg |-> ""]
ValueError(msg) == [type |-> "ValueError", msg |-> msg]
IndexError(msg) == [type |-> "IndexError", msg |-> msg]
KeyError(msg) == [type |-> "KeyError", msg |-> msg]
TypeError(msg) == [type |-> "TypeError", msg |-> msg]
ConnectionError(msg) == [type |-> "ConnectionError", msg |-> msg]
JSONDecodeError(msg) == [type |-> "JSONDecodeError", msg |-> msg]

\* What `returned` holds when the call returned None or raised.
None == <<>>

\* Every Flight object the network stores.
AllFlights(fls) == UNION {fls[c] : c \in DOMAIN fls}

(* -------------------------- graph mutation ---------------------------- *)

\* FlightNetwork.add_airport: self.airports[airport.icao] = airport
add_airport(aps, airport) ==
    [c \in DOMAIN aps \cup {airport.icao} |->
        IF c = airport.icao THEN airport ELSE aps[c]]

\* The two guards of add_flight.
OriginKnown(aps, flight) == flight.origin.icao \in DOMAIN aps

add_flight_no_destination_check(aps, flight) == TRUE

DestinationKnown(aps, flight) == flight.destination.icao \in DOMAIN aps

\* FlightNetwork.add_flight, after its guards: set.add or a new set.
add_flight_store(fls, flight) ==
    IF flight.origin.icao \in DOMAIN fls
    THEN [fls EXCEPT ![flight.origin.icao] = @ \cup {flight}]
    ELSE [c \in DOMAIN fls \cup {flight.origin.icao} |->
            IF c = flight.origin.icao THEN {flight} ELSE fls[c]]

add_flight_skip_origin_check(aps, fls, flight) ==
    IF ~DestinationKnown(aps, flight)
    THEN [raised |-> ValueError("Destination airport not in network"),
          flights |-> fls]
    ELSE [raised |-> NoError, flights |-> add_flight_store(fls, flight)]

\* FlightNetwork.add_flight: the exception raised and the flights mapping
\* after the call.
add_flight(aps, fls, flight) ==
    IF ~OriginKnown(aps, flight)
    THEN [raised |-> ValueError("Origin airport not in network"),
          flights |-> fls]
    ELSE IF ~DestinationKnown(aps, flight)
    THEN [raised |-> ValueError("Destination airport not in network"),
          flights |-> fls]
    ELSE [raised |-> NoError, flights |-> add_flight_store(fls, flight)]

(* ------------------------- iteration of a set ------------------------- *)

\* The orders a set S of flights can be iterated in: the sequences that
\* list every flight of S once.
Perms(S) ==
    {p \in [1..Cardinality(S) -> S] :
        \A i \in 1..Cardinality(S), j \in 1..Cardinality(S) :
            p[i] = p[j] => i = j}

\* The sequences of at most n flights of S.
SeqsUpTo(S, n) == UNION {[1..k -> S] : k \in 0..n}

\* An iteration order for every set of the mapping fls.
Orders(fls) ==
    {ord \in [DOMAIN fls -> UNION {Perms(fls[c]) : c \in DOMAIN fls}] :
        \A c \in DOMAIN fls : ord[c] \in Perms(fls[c])}

\* `for flight in S` for the set S = fls.get(code, set()): its flights, in
\* the order ord gives for it.
Iterate(S, ord, code) == IF S = {} THEN <<>> ELSE ord[code]

\* self.flights.get(code, set())
get(fls, code) == IF code \in DOMAIN fls THEN fls[code] ELSE {}

\* A pop that leaves the list as it is.
pop_nothing(list) == list

\* list.pop()
pop(list) == SubSeq(list, 1, Len(list) - 1)

(* --------------------------- total_layover ---------------------------- *)

RECURSIVE total_layover_from(_, _)
\* The loop of total_layover from index i (1-based) on.
total_layover_from(route, i) ==
    IF i > Len(route) THEN 0
    ELSE (route[i].departure_time - route[i - 1].arrival_time)
         + total_layover_from(route, i + 1)

\* FlightNetwork.total_layover
total_layover(route) == total_layover_from(route, 2)

(* ------------------------- find_all_routes ---------------------------- *)

\* The visited test of find_paths.
NotVisited(flight, visited) == flight.destination.icao \notin visited

\* visited.remove(current_code), at the end of find_paths.
find_paths_keep_visited(visited, current_code) == visited

Unmark(visited, current_code) == visited \ {current_code}

\* The base-case test of find_paths.
find_paths_record_everywhere(current_code, target_code, paths) ==
    paths # <<>>

AtTarget(current_code, target_code, paths) == current_code = target_code

\* What is observed of a call of find_paths when it is entered and when it
\* returns: the airport and the mutable arguments paths and visited.
Frame(event, current_code, paths, visited) ==
    [event |-> event, current_code |-> current_code, paths |-> paths,
     visited |-> visited]

RECURSIVE find_paths(_, _, _, _, _, _, _, _)
RECURSIVE find_paths_loop(_, _, _, _, _, _, _, _, _)

\* FlightNetwork.find_paths: the mutable arguments paths, visited and
\* all_paths as they are when the call returns, and the calls and returns
\* so far.
find_paths(fls, ord, current_code, target_code, paths, visited, all_paths, frames) ==
    LET marked == visited \cup {current_code}
        called == Append(frames, Frame("call", current_code, paths, visited))
        done ==
            IF AtTarget(current_code, target_code, paths)
            THEN [paths |-> paths, visited |-> marked,
                  all_paths |-> Append(all_paths, paths), frames |-> called]
            ELSE find_paths_loop(fls, ord,
                                 Iterate(get(fls, current_code), ord,
                                         current_code),
                                 current_code, target_code, paths, marked,
                                 all_paths, called)
        unmarked == Unmark(done.visited, current_code)
    IN  [done EXCEPT !.visited = unmarked,
                     !.frames = Append(@, Frame("return", current_code,
                                                done.paths, unmarked))]

\* The for loop of find_paths over the flights still to iterate.
find_paths_loop(fls, ord, todo, current_code, target_code, paths, visited, all_paths, frames) ==
    IF todo = <<>>
    THEN [paths |-> paths, visited |-> visited, all_paths |-> all_paths,
          frames |-> frames]
    ELSE LET flight == Head(todo)
             after ==
                 IF NotVisited(flight, visited)
                 THEN LET r == find_paths(fls, ord, flight.destination.icao,
                                          target_code, Append(paths, flight),
                                          visited, all_paths, frames)
                      IN  [r EXCEPT !.paths = pop(@)]
                 ELSE [paths |-> paths, visited |-> visited,
                       all_paths |-> all_paths, frames |-> frames]
         IN  find_paths_loop(fls, ord, Tail(todo), current_code, target_code,
                             after.paths, after.visited, after.all_paths,
                             after.frames)

AirportCheck_departure_only(aps, from_code, to_code) ==
    IF from_code \notin DOMAIN aps THEN ValueError("Departure airport not found")
    ELSE NoError

\* The guards of find_all_routes and find_shortest_time_path.
AirportCheck(aps, from_code, to_code) ==
    IF from_code \notin DOMAIN aps THEN ValueError("Departure airport not found")
    ELSE IF to_code \notin DOMAIN aps
    THEN ValueError("Destination airport not found")
    ELSE NoError

\* FlightNetwork.find_all_routes
find_all_routes(aps, fls, ord, from_code, to_code) ==
    IF AirportCheck(aps, from_code, to_code) # NoError
    THEN [raised |-> AirportCheck(aps, from_code, to_code), returned |-> None,
          frames |-> <<>>]
    ELSE LET r == find_paths(fls, ord, from_code, to_code, <<>>, {}, <<>>,
                             <<>>)
         IN  [raised |-> NoError, returned |-> r.all_paths,
              frames |-> r.frames]

(* --------------------- find_shortest_time_path ------------------------ *)

\* A bound that a time only has to reach.
find_shortest_time_path_at_most(time, bound) == time <= bound

\* The comparison `<` of the three tests against best_path[1].
StrictlyLess(time, bound) == time < bound

\* The base-case and pruning tests, and the test that replaces the incumbent.
Improves(time, best_path) == StrictlyLess(time, best_path[2])

find_shortest_time_path_keeps_first(time, best_path) ==
    best_path[1] = <<>>

Replaces(time, best_path) == StrictlyLess(time, best_path[2])

\* What is observed of a call when it is entered: the airport, the flights
\* taken so far and the duration of the incumbent it was given.
Entered(start_code, current_flights, best_path) ==
    [start_code |-> start_code, current_flights |-> current_flights,
     bound |-> best_path[2]]

RECURSIVE find_shortest_time_path(_, _, _, _, _, _, _, _, _)
RECURSIVE find_shortest_time_path_loop(_, _, _, _, _, _, _, _, _, _)

\* FlightNetwork.find_shortest_time_path below its guards: the pair
\* <<route, duration>> it returns, and the calls entered so far.  visited is
\* the caller's copy.
find_shortest_time_path(fls, ord, start_code, end_code, visited, current_time, current_flights, best_path, entered) ==
    LET now == Append(entered, Entered(start_code, current_flights, best_path))
    IN  IF start_code = end_code
        THEN [best_path |-> IF Improves(current_time, best_path)
                            THEN <<current_flights, current_time>>
                            ELSE best_path,
              entered |-> now]
        ELSE LET r == find_shortest_time_path_loop(
                          fls, ord, Iterate(get(fls, start_code), ord,
                                            start_code),
                          start_code, end_code, visited \cup {start_code},
                          current_time, current_flights, best_path, now)
             IN  [best_path |-> IF r.best_path[1] # <<>> THEN r.best_path
                                ELSE << <<>>, timedelta_max >>,
                  entered |-> r.entered]

\* The for loop of find_shortest_time_path: the incumbent after the flights
\* of todo.
find_shortest_time_path_loop(fls, ord, todo, start_code, end_code, visited, current_time, current_flights, best_path, entered) ==
    IF todo = <<>> THEN [best_path |-> best_path, entered |-> entered]
    ELSE LET flight == Head(todo)
             dest_code == flight.destination.icao
             new_time == current_time + get_duration(flight)
             recurse ==
                 dest_code \notin visited /\ Improves(new_time, best_path)
             found ==
                 find_shortest_time_path(fls, ord, dest_code, end_code, visited,
                                         new_time,
                                         Append(current_flights, flight),
                                         best_path, entered)
             next_best ==
                 IF recurse /\ Replaces(found.best_path[2], best_path)
                 THEN found.best_path ELSE best_path
         IN  find_shortest_time_path_loop(
                 fls, ord, Tail(todo), start_code, end_code, visited,
                 current_time, current_flights, next_best,
                 IF recurse THEN found.entered ELSE entered)

\* find_shortest_time_path as a caller invokes it: the guards, then the
\* search with visited = set(), current_time = timedelta(0),
\* current_flights = [] and best_path = ([], timedelta.max).
shortest_time(aps, fls, ord, start_code, end_code) ==
    IF AirportCheck(aps, start_code, end_code) # NoError
    THEN [raised |-> AirportCheck(aps, start_code, end_code),
          returned |-> None, entered |-> <<>>]
    ELSE LET r == find_shortest_time_path(fls, ord, start_code, end_code, {},
                                          0, <<>>, << <<>>, timedelta_max >>,
                                          <<>>)
         IN  [raised |-> NoError, returned |-> r.best_path,
              entered |-> r.entered]

(* ----------------------- find_shortest_layover ------------------------ *)

\* The comparison that replaces the best route of find_shortest_layover.
find_shortest_layover_prefers_longer(current_layover, min_layover) ==
    current_layover > min_layover

ShorterLayover(current_layover, min_layover) == current_layover < min_layover

RECURSIVE find_shortest_layover_loop(_, _)
\* The for loop of find_shortest_layover over all_routes[1:].
find_shortest_layover_loop(rest, best_route) ==
    IF rest = <<>> THEN best_route
    ELSE find_shortest_layover_loop(
             Tail(rest),
             IF ShorterLayover(total_layover(Head(rest)),
                               total_layover(best_route))
             THEN Head(rest) ELSE best_route)

\* find_shortest_layover answering an empty list of routes with an empty route.
find_shortest_layover_empty_route(aps, fls, ord, start_code, end_code) ==
    LET all_routes == find_all_routes(aps, fls, ord, start_code, end_code)
    IN  IF all_routes.raised # NoError THEN all_routes
        ELSE IF all_routes.returned = <<>>
        THEN [raised |-> NoError, returned |-> <<>>]
        ELSE [raised |-> NoError,
              returned |-> find_shortest_layover_loop(Tail(all_routes.returned),
                                                      Head(all_routes.returned))]

\* FlightNetwork.find_shortest_layover
find_shortest_layover(aps, fls, ord, start_code, end_code) ==
    LET all_routes == find_all_routes(aps, fls, ord, start_code, end_code)
    IN  IF all_routes.raised # NoError THEN all_routes
        ELSE IF all_routes.returned = <<>>
        THEN [raised |-> IndexError("list index out of range"),
              returned |-> None]
        ELSE [raised |-> NoError,
              returned |-> find_shortest_layover_loop(Tail(all_routes.returned),
                                                      Head(all_routes.returned))]

(* ----------------------- find_routes_by_airline ----------------------- *)

\* A string is a sequence of characters.  str.lower() on the letters the
\* airline names are written with.
LowerChar(ch) ==
    CASE ch = "A" -> "a"
      [] ch = "B" -> "b"
      [] ch = "X" -> "x"
      [] OTHER -> ch

lower_keeps_case(str) == str

lower(str) == [i \in DOMAIN str |-> LowerChar(str[i])]

\* any(flight.airline_name.lower() == airline.lower() for flight in route)
OperatedBy(route, airline) ==
    \E i \in DOMAIN route : lower(route[i].airline_name) = lower(airline)

\* FlightNetwork.find_routes_by_airline
find_routes_by_airline(aps, fls, ord, origin_code, destination_code, airline) ==
    LET all_routes ==
            find_all_routes(aps, fls, ord, origin_code, destination_code)
    IN  IF all_routes.raised # NoError THEN all_routes
        ELSE [raised |-> NoError,
              returned |-> SelectSeq(all_routes.returned,
                                     LAMBDA route : OperatedBy(route, airline))]

(* ------------------------- find_valid_routes -------------------------- *)

\* The values response.json() can produce, as the Python objects they become.
JsonNull == [kind |-> "null"]
JsonString(text) == [kind |-> "string", text |-> text]
JsonArray(items) == [kind |-> "array", items |-> items]
\* A dict is the list of its <<key, value>> items, in insertion order.
JsonObject(members) == [kind |-> "object", members |-> members]

\* The characters of the strings the lookup answers are written with.
Chars(text) ==
    CASE text = "" -> <<>>
      [] text = "YY" -> <<"Y", "Y">>
      [] text = "ZZ" -> <<"Z", "Z">>
      [] OTHER -> <<text>>

\* requests.get(url) followed by response.json(): the service cannot be
\* reached, or it answers with a body that is or is not JSON.
requests_get(response) ==
    IF response.status = "unreachable"
    THEN [raised |-> ConnectionError("unreachable"), value |-> JsonNull]
    ELSE IF response.status = "not json"
    THEN [raised |-> JSONDecodeError("Expecting value"), value |-> JsonNull]
    ELSE [raised |-> NoError, value |-> response.json]

\* value[key] for a str key.
getitem(value, key) ==
    IF value.kind = "object"
    THEN IF \E i \in DOMAIN value.members : value.members[i][1] = key
         THEN [raised |-> NoError,
               value |-> value.members[CHOOSE i \in DOMAIN value.members :
                                           value.members[i][1] = key][2]]
         ELSE [raised |-> KeyError(key), value |-> JsonNull]
    ELSE IF value.kind = "null"
    THEN [raised |-> TypeError("'NoneType' object is not subscriptable"),
          value |-> JsonNull]
    ELSE [raised |-> TypeError("indices must be integers"), value |-> JsonNull]

\* iter(value): the items of a list, the keys of a dict, the characters of a
\* str; None is not iterable.
iter(value) ==
    IF value.kind = "array" THEN [raised |-> NoError, items |-> value.items]
    ELSE IF value.kind = "object"
    THEN [raised |-> NoError,
          items |-> [i \in 1..Len(value.members) |->
                        JsonString(value.members[i][1])]]
    ELSE IF value.kind = "string"
    THEN [raised |-> NoError,
          items |-> [i \in 1..Len(Chars(value.text)) |->
                        JsonString(Chars(value.text)[i])]]
    ELSE [raised |-> TypeError("'NoneType' object is not iterable"),
          items |-> <<>>]

RECURSIVE countries_required_visa_loop(_, _)
\* The loop that appends i["name"] for every i of passport_data["VR"].
countries_required_visa_loop(todo, countries_required_visa) ==
    IF todo = <<>>
    THEN [raised |-> NoError, countries |-> countries_required_visa]
    ELSE LET name == getitem(Head(todo), "name")
         IN  IF name.raised # NoError
             THEN [raised |-> name.raised, countries |-> <<>>]
             ELSE countries_required_visa_loop(
                      Tail(todo), Append(countries_required_visa, name.value))

\* A route is kept whatever countries it lands in.
find_valid_routes_keeps_all(countries) == TRUE

\* The test `if countries:` that keeps a route.
Kept(countries) == countries # <<>>

\* The list `countries` of a route: the destination countries that are not
\* in countries_required_visa.
VisaFreeCountries(route, countries_required_visa) ==
    LET landed == [i \in 1..Len(route) |-> route[i].destination.country]
    IN  SelectSeq(landed,
                  LAMBDA country :
                      \A i \in DOMAIN countries_required_visa :
                          countries_required_visa[i] # JsonString(country))

\* FlightNetwork.find_valid_routes; `requested` lists the lookups made.
find_valid_routes(aps, fls, ord, response, passport, origin_code, destination_code) ==
    LET passport_data == requests_get(response)
        VR == getitem(passport_data.value, "VR")
        todo == iter(VR.value)
        names == countries_required_visa_loop(todo.items, <<>>)
        all_routes ==
            find_all_routes(aps, fls, ord, origin_code, destination_code)
        failed(error) ==
            [raised |-> error, returned |-> None, requested |-> <<passport>>]
    IN  IF passport_data.raised # NoError THEN failed(passport_data.raised)
        ELSE IF VR.raised # NoError THEN failed(VR.raised)
        ELSE IF todo.raised # NoError THEN failed(todo.raised)
        ELSE IF names.raised # NoError THEN failed(names.raised)
        ELSE IF all_routes.raised # NoError THEN failed(all_routes.raised)
        ELSE [raised |-> NoError,
              returned |->
                  SelectSeq(all_routes.returned,
                            LAMBDA route :
                                Kept(VisaFreeCountries(route, names.countries))),
              requested |-> <<passport>>]

(* ------------------------------ inputs -------------------------------- *)

\* The Flight objects a caller can pass to add_flight in a network that
\* stores `stored`: an object the network already holds, or a new object
\* whose fields are in `catalogue`; the new object's serial follows those of
\* the stored objects with the same fields.
NewObject(stored, fields) ==
    LET same == {g \in stored : Fields(g) = fields}
    IN  Flight(Cardinality(same) + 1, fields.flight_number, fields.airline_name,
               fields.airline_icao, fields.origin, fields.destination,
               fields.departure_time, fields.arrival_time)

FlightObjects(stored, catalogue) ==
    stored \cup
    (IF Cardinality(stored) < MaxFlights
     THEN {NewObject(stored, fields) : fields \in catalogue}
     ELSE {})

\* The airport registered in the query specifications.
PlainAirport(c) == Airport(c, "N1", "XX")

\* Airports of the construction specification: two airports per code.
BuildAirports == {Airport(c, n, "XX") : c \in ICAO, n \in {"N1", "N2"}}

\* Flights of the construction specification: every pair of endpoints,
\* loops included, one schedule.
BuildFlights ==
    {Fields(Flight(0, "F1", <<"A", "b">>, "AB", PlainAirport(o),
                      PlainAirport(d), 0, 1)) :
        o \in ICAO, d \in ICAO}

\* The connections of the flights with schedules and airlines: a direct
\* connection, a connection with one stop, and a way back.
Connections ==
    {<<"AAAA", "BBBB">>, <<"BBBB", "CCCC">>, <<"AAAA", "CCCC">>,
     <<"BBBB", "AAAA">>}

\* <<departure_time, arrival_time>>: durations 1, 1, 2 and 3.
Schedules == {<<0, 1>>, <<2, 3>>, <<0, 2>>, <<0, 3>>}

\* Flights of the specification of the optimising queries.
TimedFlights ==
    {Fields(Flight(0, "F1", <<"A", "b">>, "AB", PlainAirport(c[1]),
                   PlainAirport(c[2]), t[1], t[2])) :
        c \in Connections, t \in Schedules}

\* Airline names of stored flights and of queries.
AirlineNames == {<<"A", "b">>, <<"a", "b">>, <<"X">>}
AirlineQueries == {<<"a", "B">>, <<"A", "b">>, <<"x">>, <<"a">>}

\* Flights of the specification of the airline filter.
AirlineFlights ==
    {Fields(Flight(0, "F1", n, "AB", PlainAirport(c[1]), PlainAirport(c[2]),
                   0, 1)) :
        c \in Connections \ {<<"BBBB", "AAAA">>}, n \in AirlineNames}

\* Airports of three countries and the flights between them.
VisaAirport(c) ==
    Airport(c, "N1", CASE c = "AAAA" -> "XX" [] c = "BBBB" -> "YY"
                       [] OTHER -> "ZZ")

VisaFlights ==
    {Fields(Flight(0, "F1", <<"A">>, "AB", VisaAirport(c[1]), VisaAirport(c[2]),
                   0, 1)) : c \in Connections}

\* The same flights and a second, parallel flight from AAAA to BBBB.
ParallelFlights ==
    VisaFlights \cup
        {Fields(Flight(0, "F2", <<"A">>, "AB", VisaAirport("AAAA"),
                       VisaAirport("BBBB"), 0, 1))}

\* A body in which "VR" lists the given country names.
VisaRequired(names) ==
    [status |-> "json",
     json |-> JsonObject(<< <<"VR",
                  JsonArray([i \in DOMAIN names |->
                      JsonObject(<< <<"name", JsonString(names[i])>> >>)])>> >>)]

\* The answers of the lookup service with a list of countries.
Answers ==
    {VisaRequired(names) :
        names \in {<<>>, <<"YY">>, <<"ZZ">>, <<"YY", "ZZ">>}}

Body(json) == [status |-> "json", json |-> json]

\* The lookups that fail or answer with something else than a list of
\* named countries.
Failures ==
    {[status |-> "unreachable"], [status |-> "not json"],
     Body(JsonNull),
     Body(JsonObject(<<>>)),
     Body(JsonObject(<< <<"error", JsonString("not found")>> >>)),
     Body(JsonObject(<< <<"VR", JsonNull>> >>)),
     Body(JsonObject(<< <<"VR", JsonObject(<<>>)>> >>)),
     Body(JsonObject(<< <<"VR", JsonString("")>> >>)),
     Body(JsonObject(<< <<"VR", JsonString("YY")>> >>)),
     Body(JsonObject(<< <<"VR", JsonArray(<<JsonString("YY")>>)>> >>)),
     Body(JsonObject(<< <<"VR", JsonArray(<<JsonObject(<<>>)>>)>> >>))}

Responses == Answers \cup Failures
\* Flights of duration 1 and 2, so that a direct flight ties with a route of
\* two flights.
TiedFlights ==
    {Fields(Flight(0, "F1", <<"A">>, "AB", PlainAirport(c[1]),
                   PlainAirport(c[2]), 0, t)) :
        c \in Connections, t \in {1, 2}}

(* ------------------------------ actions ------------------------------- *)

\* The caller makes one call at a time: call is Idle between two calls, and
\* holds the operation and its arguments from the call until the caller has
\* taken what the call raised or returned.
Idle == [op |-> "idle"]

Init ==
    /\ airports = << >>
    /\ flights = << >>
    /\ call = Idle
    /\ raised = NoError
    /\ returned = None

AddAirport(airport) ==
    /\ call = Idle
    /\ airports' = add_airport(airports, airport)
    /\ call' = [op |-> "add_airport", airport |-> airport]
    /\ raised' = NoError
    /\ returned' = None
    /\ UNCHANGED flights

AddFlight(flight) ==
    LET r == add_flight(airports, flights, flight)
    IN  /\ call = Idle
        /\ flights' = r.flights
        /\ call' = [op |-> "add_flight", flight |-> flight]
        /\ raised' = r.raised
        /\ returned' = None
        /\ UNCHANGED airports

FindAllRoutes(from_code, to_code, ord) ==
    LET r == find_all_routes(airports, flights, ord, from_code, to_code)
    IN  /\ call = Idle
        /\ call' = [op |-> "find_all_routes", from_code |-> from_code,
                    to_code |-> to_code]
        /\ raised' = r.raised
        /\ returned' = r.returned
        /\ UNCHANGED <<airports, flights>>

FindShortestTimePath(start_code, end_code, ord) ==
    LET r == shortest_time(airports, flights, ord, start_code, end_code)
    IN  /\ call = Idle
        /\ call' = [op |-> "find_shortest_time_path", from_code |-> start_code,
                    to_code |-> end_code]
        /\ raised' = r.raised
        /\ returned' = r.returned
        /\ UNCHANGED <<airports, flights>>

\* find_all_routes observed together with the calls and returns of
\* find_paths.
EnumerateRoutes(from_code, to_code, ord) ==
    LET r == find_all_routes(airports, flights, ord, from_code, to_code)
    IN  /\ call = Idle
        /\ call' = [op |-> "find_all_routes", from_code |-> from_code,
                    to_code |-> to_code, frames |-> r.frames]
        /\ raised' = r.raised
        /\ returned' = r.returned
        /\ UNCHANGED <<airports, flights>>

\* find_shortest_time_path observed together with the iteration order it
\* ran in and the recursive calls it entered.
SearchShortestTimePath(start_code, end_code, ord) ==
    LET r == shortest_time(airports, flights, ord, start_code, end_code)
    IN  /\ call = Idle
        /\ call' = [op |-> "find_shortest_time_path", from_code |-> start_code,
                    to_code |-> end_code, ord |-> ord, entered |-> r.entered]
        /\ raised' = r.raised
        /\ returned' = r.returned
        /\ UNCHANGED <<airports, flights>>

FindShortestLayover(start_code, end_code, ord) ==
    LET r == find_shortest_layover(airports, flights, ord, start_code, end_code)
    IN  /\ call = Idle
        /\ call' = [op |-> "find_shortest_layover", from_code |-> start_code,
                    to_code |-> end_code]
        /\ raised' = r.raised
        /\ returned' = r.returned
        /\ UNCHANGED <<airports, flights>>

FindRoutesByAirline(origin_code, destination_code, airline, ord) ==
    LET r == find_routes_by_airline(airports, flights, ord, origin_code,
                                    destination_code, airline)
    IN  /\ call = Idle
        /\ call' = [op |-> "find_routes_by_airline", from_code |-> origin_code,
                    to_code |-> destination_code, airline |-> airline]
        /\ raised' = r.raised
        /\ returned' = r.returned
        /\ UNCHANGED <<airports, flights>>

FindValidRoutes(response, passport, origin_code, destination_code, ord) ==
    LET r == find_valid_routes(airports, flights, ord, response, passport,
                               origin_code, destination_code)
    IN  /\ call = Idle
        /\ call' = [op |-> "find_valid_routes", from_code |-> origin_code,
                    to_code |-> destination_code, response |-> response,
                    requested |-> r.requested]
        /\ raised' = r.raised
        /\ returned' = r.returned
        /\ UNCHANGED <<airports, flights>>

\* total_layover is a public method: a caller can pass it any list of Flight
\* objects.
TotalLayover(route) ==
    /\ call = Idle
    /\ call' = [op |-> "total_layover", route |-> route]
    /\ raised' = NoError
    /\ returned' = <<total_layover(route)>>
    /\ UNCHANGED <<airports, flights>>

\* The caller takes the outcome of the call; the network stays as it is.
Return ==
    /\ call # Idle
    /\ call' = Idle
    /\ raised' = NoError
    /\ returned' = None
    /\ UNCHANGED <<airports, flights>>

(* --------------------------- specifications --------------------------- *)

\* Construction of the network: airports are added and replaced, flights
\* are added between registered and unregistered airports.
Next ==
    \/ Return
    \/ \E airport \in BuildAirports : AddAirport(airport)
    \/ /\ call = Idle
       /\ \E flight \in FlightObjects(AllFlights(flights), BuildFlights) :
             AddFlight(flight)

Spec == Init /\ [][Next]_vars

\* Construction and the four queries over every shape of network on the
\* codes of ICAO: loops, cycles and parallel flights, one schedule.
NextRoutes ==
    \/ Return
    \/ \E c \in ICAO : AddAirport(PlainAirport(c))
    \/ /\ call = Idle
       /\ \E flight \in FlightObjects(AllFlights(flights), BuildFlights) :
             AddFlight(flight)
    \/ /\ call = Idle
       /\ \E ord \in Orders(flights), a \in ICAO, b \in ICAO :
             FindAllRoutes(a, b, ord)
    \/ /\ call = Idle
       /\ \E ord \in Orders(flights), a \in ICAO, b \in ICAO :
             FindShortestTimePath(a, b, ord)
    \/ /\ call = Idle
       /\ \E ord \in Orders(flights), a \in ICAO, b \in ICAO :
             FindShortestLayover(a, b, ord)
    \/ /\ call = Idle
       /\ \E ord \in Orders(flights), a \in ICAO, b \in ICAO :
             FindRoutesByAirline(a, b, <<"a", "B">>, ord)

SpecRoutes == Init /\ [][NextRoutes]_vars

\* Construction and the two optimising queries over flights of different
\* schedules.
NextTimes ==
    \/ Return
    \/ \E c \in ICAO : AddAirport(PlainAirport(c))
    \/ /\ call = Idle
       /\ \E flight \in FlightObjects(AllFlights(flights), TimedFlights) :
             AddFlight(flight)
    \/ /\ call = Idle
       /\ \E ord \in Orders(flights), a \in ICAO, b \in ICAO :
             FindShortestTimePath(a, b, ord)
    \/ /\ call = Idle
       /\ \E ord \in Orders(flights), a \in ICAO, b \in ICAO :
             FindShortestLayover(a, b, ord)

SpecTimes == Init /\ [][NextTimes]_vars

\* Construction and the airline filter over flights of different airlines.
NextAirline ==
    \/ Return
    \/ \E c \in ICAO : AddAirport(PlainAirport(c))
    \/ /\ call = Idle
       /\ \E flight \in FlightObjects(AllFlights(flights), AirlineFlights) :
             AddFlight(flight)
    \/ /\ call = Idle
       /\ \E ord \in Orders(flights), a \in ICAO, b \in ICAO,
             airline \in AirlineQueries :
             FindRoutesByAirline(a, b, airline, ord)

SpecAirline == Init /\ [][NextAirline]_vars

\* Construction over airports of three countries and find_valid_routes with
\* every outcome of the lookup.
NextVisa ==
    \/ Return
    \/ \E c \in ICAO : AddAirport(VisaAirport(c))
    \/ /\ call = Idle
       /\ \E flight \in FlightObjects(AllFlights(flights), VisaFlights) :
             AddFlight(flight)
    \/ /\ call = Idle
       /\ \E ord \in Orders(flights), response \in Responses,
             a \in ICAO, b \in ICAO :
             FindValidRoutes(response, "CA", a, b, ord)

SpecVisa == Init /\ [][NextVisa]_vars

\* Construction over airports of three countries and the five queries, the
\* lookup answering with a list of countries.
NextQueries ==
    \/ Return
    \/ \E c \in ICAO : AddAirport(VisaAirport(c))
    \/ /\ call = Idle
       /\ \E flight \in FlightObjects(AllFlights(flights), ParallelFlights) :
             AddFlight(flight)
    \/ /\ call = Idle
       /\ \E ord \in Orders(flights), a \in ICAO, b \in ICAO :
             FindAllRoutes(a, b, ord)
    \/ /\ call = Idle
       /\ \E ord \in Orders(flights), a \in ICAO, b \in ICAO :
             FindShortestTimePath(a, b, ord)
    \/ /\ call = Idle
       /\ \E ord \in Orders(flights), a \in ICAO, b \in ICAO :
             FindShortestLayover(a, b, ord)
    \/ /\ call = Idle
       /\ \E ord \in Orders(flights), a \in ICAO, b \in ICAO :
             FindRoutesByAirline(a, b, <<"a">>, ord)
    \/ /\ call = Idle
       /\ \E ord \in Orders(flights), a \in ICAO, b \in ICAO :
             FindValidRoutes(VisaRequired(<<"ZZ">>), "CA", a, b, ord)

SpecQueries == Init /\ [][NextQueries]_vars

\* Construction with tied durations and the observed shortest-time search.
NextTies ==
    \/ Return
    \/ \E c \in ICAO : AddAirport(PlainAirport(c))
    \/ /\ call = Idle
       /\ \E flight \in FlightObjects(AllFlights(flights), TiedFlights) :
             AddFlight(flight)
    \/ /\ call = Idle
       /\ \E ord \in Orders(flights), a \in ICAO, b \in ICAO :
             SearchShortestTimePath(a, b, ord)

SpecTies == Init /\ [][NextTies]_vars

\* Construction of networks with cycles, loops and parallel flights, and
\* the two recursive searches observed call by call.
NextRecursion ==
    \/ Return
    \/ \E c \in ICAO : AddAirport(PlainAirport(c))
    \/ /\ call = Idle
       /\ \E flight \in FlightObjects(AllFlights(flights), BuildFlights) :
             AddFlight(flight)
    \/ /\ call = Idle
       /\ \E ord \in Orders(flights), a \in ICAO, b \in ICAO :
             EnumerateRoutes(a, b, ord)
    \/ /\ call = Idle
       /\ \E ord \in Orders(flights), a \in ICAO, b \in ICAO :
             SearchShortestTimePath(a, b, ord)

SpecRecursion == Init /\ [][NextRecursion]_vars

\* Construction and total_layover on every list of at most MaxRoute stored
\* flights, valid route or not.
NextLayover ==
    \/ Return
    \/ \E c \in ICAO : AddAirport(PlainAirport(c))
    \/ /\ call = Idle
       /\ \E flight \in FlightObjects(AllFlights(flights), TimedFlights) :
             AddFlight(flight)
    \/ /\ call = Idle
       /\ \E route \in SeqsUpTo(AllFlights(flights), MaxRoute) :
             TotalLayover(route)

SpecLayover == Init /\ [][NextLayover]_vars

(* ------------------- claims about the construction -------------------- *)

\* C6: add_flight with a flight whose origin ICAO or destination ICAO is no
\* key of airports raises the ValueError of that endpoint (the code's
\* UnknownAirport) and leaves airports and flights as they were.
C6_UnknownAirportRejected ==
    [][(/\ call'.op = "add_flight"
        /\ \/ call'.flight.origin.icao \notin DOMAIN airports
           \/ call'.flight.destination.icao \notin DOMAIN airports)
       => /\ raised' = IF call'.flight.origin.icao \notin DOMAIN airports
                       THEN ValueError("Origin airport not in network")
                       ELSE ValueError("Destination airport not in network")
          /\ airports' = airports
          /\ flights' = flights]_vars

\* A non-empty network has just rejected a flight to an unregistered airport.
C6_Witness ==
    /\ call.op = "add_flight"
    /\ call.flight.origin.icao \in DOMAIN airports
    /\ call.flight.destination.icao \notin DOMAIN airports
    /\ raised = ValueError("Destination airport not in network")
    /\ AllFlights(flights) # {}

\* C7: add_airport with an airport whose icao is already a key of airports
\* raises an error (DuplicateAirport) and the airport registered under that
\* code stays in place.
C7_DuplicateAirportRejected ==
    [][(/\ call'.op = "add_airport"
        /\ call'.airport.icao \in DOMAIN airports)
       => /\ raised'.type # "None"
          /\ airports' = airports]_vars

\* C8: no origin's flight set holds two field-wise identical flights.
C8_NoIdenticalFlights ==
    \A c \in DOMAIN flights :
        \A f \in flights[c], g \in flights[c] :
            Fields(f) = Fields(g) => f = g

\* C9: every stored flight's origin ICAO and destination ICAO are keys of
\* airports, every key of flights is a key of airports, and every flight
\* stored under a key has that key as its origin ICAO.
C9_GraphInvariant ==
    /\ DOMAIN flights \subseteq DOMAIN airports
    /\ \A c \in DOMAIN flights :
          \A f \in flights[c] :
              /\ f.origin.icao = c
              /\ f.origin.icao \in DOMAIN airports
              /\ f.destination.icao \in DOMAIN airports

\* Flights are stored under two keys, an airport was replaced, and the last
\* call was an add_flight that failed.
C9_Witness ==
    /\ Cardinality(DOMAIN flights) >= 2
    /\ \E c \in DOMAIN airports : airports[c].name = "N2"
    /\ call.op = "add_flight"
    /\ raised.type = "ValueError"

(* ---------------------- claims about the queries ---------------------- *)

\* The operations that search routes.
QueryOps ==
    {"find_all_routes", "find_shortest_time_path", "find_shortest_layover",
     "find_routes_by_airline"}

\* The airport codes a route from from_code passes, in order.
Stops(from_code, route) ==
    <<from_code>> \o [i \in DOMAIN route |-> route[i].destination.icao]

\* No airport code occurs twice among from_code and the destinations.
IsSimple(from_code, route) ==
    \A i \in DOMAIN Stops(from_code, route), j \in DOMAIN Stops(from_code, route) :
        Stops(from_code, route)[i] = Stops(from_code, route)[j] => i = j

\* Airports are identified by their ICAO code.
ChainAdjacent(route) ==
    \A i \in 1..(Len(route) - 1) :
        route[i].destination.icao = route[i + 1].origin.icao

\* The route leaves from_code and ends in to_code; the empty route does so
\* when the two codes are the same.
Connects(from_code, to_code, route) ==
    IF route = <<>> THEN from_code = to_code
    ELSE /\ route[1].origin.icao = from_code
         /\ route[Len(route)].destination.icao = to_code

\* Every simple route of stored flights from from_code to to_code, found by
\* filtering the sequences of stored flights: a simple route uses no flight
\* twice.
SimpleRoutes(fls, from_code, to_code) ==
    {route \in SeqsUpTo(AllFlights(fls), Cardinality(AllFlights(fls))) :
        /\ Connects(from_code, to_code, route)
        /\ ChainAdjacent(route)
        /\ IsSimple(from_code, route)}

\* The number of times x occurs in the sequence seq.
Occurrences(seq, x) == Cardinality({i \in DOMAIN seq : seq[i] = x})

\* The sum of the flight durations of a route.
RECURSIVE Duration(_)
Duration(route) ==
    IF route = <<>> THEN 0
    ELSE get_duration(Head(route)) + Duration(Tail(route))

\* What find_all_routes(from_code, to_code) returns on the network as it is
\* (the set of its routes does not depend on the order of iteration).
AllRoutes(from_code, to_code) ==
    find_all_routes(airports, flights,
                    CHOOSE ord \in Orders(flights) : TRUE,
                    from_code, to_code).returned

\* C1: each route returned by find_all_routes(a, b) is simple, its first
\* flight departs from a, its last flight lands at b, and consecutive
\* flights are chain-adjacent.
C1_RoutesAreSimple ==
    (call.op = "find_all_routes" /\ raised = NoError) =>
        \A i \in DOMAIN returned :
            /\ IsSimple(call.from_code, returned[i])
            /\ Connects(call.from_code, call.to_code, returned[i])
            /\ ChainAdjacent(returned[i])

\* find_all_routes returned a route with a stop from a network with a
\* flight back to the start.
C1_Witness ==
    /\ call.op = "find_all_routes"
    /\ raised = NoError
    /\ \E i \in DOMAIN returned : Len(returned[i]) = 2
    /\ \E f \in AllFlights(flights) :
          f.destination.icao = call.from_code /\ f.origin.icao # call.from_code

\* C2: every simple chain-adjacent sequence of stored flights from a to b is
\* in the list find_all_routes(a, b) returns, exactly once, and the list is
\* empty exactly when there is no such sequence.
C2_RoutesAreComplete ==
    (call.op = "find_all_routes" /\ raised = NoError) =>
        /\ \A route \in SimpleRoutes(flights, call.from_code, call.to_code) :
              Occurrences(returned, route) = 1
        /\ (returned = <<>>) <=>
              (SimpleRoutes(flights, call.from_code, call.to_code) = {})

\* find_all_routes returned three routes, two of them through parallel
\* flights.
C2_Witness ==
    /\ call.op = "find_all_routes"
    /\ raised = NoError
    /\ Len(returned) = 3
    /\ \E i \in DOMAIN returned, j \in DOMAIN returned :
          /\ i # j
          /\ Len(returned[i]) = 1
          /\ Len(returned[j]) = 1

\* C3: with flights of positive duration and at least one route, the
\* duration find_shortest_time_path(a, b) returns is at most the summed
\* duration of every route of find_all_routes(a, b).
C3_ShortestTimeIsMinimal ==
    (call.op = "find_shortest_time_path" /\ raised = NoError) =>
        LET all_routes == AllRoutes(call.from_code, call.to_code)
        IN  (/\ \A f \in AllFlights(flights) : get_duration(f) > 0
             /\ all_routes # <<>>) =>
                \A i \in DOMAIN all_routes :
                    returned[2] <= Duration(all_routes[i])

\* find_shortest_time_path returned a route with a stop that is strictly
\* faster than a direct flight.
C3_Witness ==
    /\ call.op = "find_shortest_time_path"
    /\ raised = NoError
    /\ Len(returned[1]) = 2
    /\ LET all_routes == AllRoutes(call.from_code, call.to_code)
       IN  \E i \in DOMAIN all_routes :
              /\ Len(all_routes[i]) = 1
              /\ Duration(all_routes[i]) > returned[2]

\* C4: when find_all_routes(a, b) is not empty, find_shortest_layover(a, b)
\* returns one of its routes, whose total layover is at most that of every
\* route of find_all_routes(a, b); a route of one flight has layover zero.
C4_ShortestLayoverIsMinimal ==
    (/\ call.op = "find_shortest_layover"
     /\ call.from_code \in DOMAIN airports
     /\ call.to_code \in DOMAIN airports) =>
        LET all_routes == AllRoutes(call.from_code, call.to_code)
        IN  all_routes # <<>> =>
                /\ raised = NoError
                /\ \E i \in DOMAIN all_routes : all_routes[i] = returned
                /\ \A i \in DOMAIN all_routes :
                      /\ total_layover(returned) <= total_layover(all_routes[i])
                      /\ Len(all_routes[i]) = 1 =>
                            total_layover(all_routes[i]) = 0

\* find_shortest_layover returned a direct flight although a route with a
\* stop and a positive layover exists.
C4_Witness ==
    /\ call.op = "find_shortest_layover"
    /\ raised = NoError
    /\ Len(returned) = 1
    /\ LET all_routes == AllRoutes(call.from_code, call.to_code)
       IN  \E i \in DOMAIN all_routes : total_layover(all_routes[i]) > 0

\* The pairs of an upper-case letter and its lower-case letter.
CasePairs == {{"A", "a"}, {"B", "b"}, {"X", "x"}}

\* Two strings are equal ignoring letter case.
EqualIgnoringCase(str1, str2) ==
    /\ Len(str1) = Len(str2)
    /\ \A i \in DOMAIN str1 : str1[i] = str2[i] \/ {str1[i], str2[i]} \in CasePairs

\* The route has a flight of the airline, ignoring letter case.
HasAirline(route, airline) ==
    \E i \in DOMAIN route : EqualIgnoringCase(route[i].airline_name, airline)

C10_AirportNotFound ==
    (/\ call.op \in QueryOps
     /\ \/ call.from_code \notin DOMAIN airports
        \/ call.to_code \notin DOMAIN airports) =>
        /\ raised = IF call.from_code \notin DOMAIN airports
                    THEN ValueError("Departure airport not found")
                    ELSE ValueError("Destination airport not found")
        /\ returned = None

\* A query from a registered airport with departing flights to an
\* unregistered one has failed.
C10_Witness ==
    /\ call.op = "find_shortest_layover"
    /\ call.from_code \in DOMAIN flights
    /\ call.to_code \notin DOMAIN airports
    /\ raised = ValueError("Destination airport not found")

(* ------------------ claims about the shape of routes ------------------ *)

\* The routes the last call returned.
ReturnedRoutes ==
    IF raised # NoError THEN {}
    ELSE IF call.op \in {"find_all_routes", "find_routes_by_airline",
                         "find_valid_routes"}
    THEN {returned[i] : i \in DOMAIN returned}
    ELSE IF call.op = "find_shortest_time_path" THEN {returned[1]}
    ELSE IF call.op = "find_shortest_layover" THEN {returned}
    ELSE {}

\* No flight of the route leaves before the flight before it has arrived.
TimeOrdered(route) ==
    \A i \in 1..(Len(route) - 1) :
        route[i].arrival_time <= route[i + 1].departure_time

\* C11: every route a query returns is time-ordered: for every consecutive
\* pair, flights[i].arrival_time <= flights[i+1].departure_time.
C11_RoutesAreTimeOrdered ==
    \A route \in ReturnedRoutes : TimeOrdered(route)

\* C12: find_shortest_layover(a, b) with registered a and b and no route
\* fails with an error (IndexError, the code's NoRouteFound) that is not the
\* ValueError of an unregistered airport.
C12_NoRouteFound ==
    (/\ call.op = "find_shortest_layover"
     /\ call.from_code \in DOMAIN airports
     /\ call.to_code \in DOMAIN airports
     /\ SimpleRoutes(flights, call.from_code, call.to_code) = {}) =>
        /\ raised.type = "IndexError"
        /\ raised.type # AirportCheck(<< >>, call.from_code, call.to_code).type
        /\ returned = None

\* find_shortest_layover has failed between two registered airports that
\* both have departing flights.
C12_Witness ==
    /\ call.op = "find_shortest_layover"
    /\ call.from_code \in DOMAIN flights
    /\ call.to_code \in DOMAIN flights
    /\ raised.type = "IndexError"

\* C15: total_layover fails (InvalidRoute) when a consecutive pair of the
\* route is not chain-adjacent or not time-ordered, and returns the sum of
\* next.departure_time - previous.arrival_time on a valid route.
C15_InvalidRouteRejected ==
    call.op = "total_layover" =>
        IF ChainAdjacent(call.route) /\ TimeOrdered(call.route)
        THEN raised = NoError
        ELSE raised # NoError

(* ---------------------- find_shortest_time_path ----------------------- *)

RECURSIVE FlightTime(_)
\* The time spent in the air on a route: arrival minus departure, summed.
FlightTime(route) ==
    IF route = <<>> THEN 0
    ELSE Head(route).arrival_time - Head(route).departure_time
         + FlightTime(Tail(route))

\* C17: for registered a # b, find_shortest_time_path(a, b) returns a route
\* of find_all_routes(a, b) with the sum of its flights' durations, or,
\* exactly when find_all_routes(a, b) is empty, the empty route with
\* timedelta.max.
C17_ShortestTimeResult ==
    (/\ call.op = "find_shortest_time_path"
     /\ call.from_code \in DOMAIN airports
     /\ call.to_code \in DOMAIN airports
     /\ call.from_code # call.to_code) =>
        LET all_routes == AllRoutes(call.from_code, call.to_code)
            route == returned[1]
            time == returned[2]
        IN  /\ raised = NoError
            /\ IF all_routes = <<>>
               THEN route = <<>> /\ time = timedelta_max
               ELSE /\ \E i \in DOMAIN all_routes : all_routes[i] = route
                    /\ time = FlightTime(route)
                    /\ time # timedelta_max

\* find_shortest_time_path has returned a route of two flights although a
\* direct flight exists.
C17_Witness ==
    /\ call.op = "find_shortest_time_path"
    /\ raised = NoError
    /\ Len(returned[1]) = 2
    /\ returned[2] = FlightTime(returned[1])
    /\ \E flight \in AllFlights(flights) :
          /\ flight.origin.icao = call.from_code
          /\ flight.destination.icao = call.to_code

(* ------------------------- find_valid_routes -------------------------- *)

\* The set of countries a lookup answer says require a visa.
VisaRequiredSet(response) ==
    LET VR == response.json.members[1][2].items
    IN  {VR[i].members[1][2].text : i \in DOMAIN VR}

C14_VisaLookupFailed ==
    call.op = "find_valid_routes" =>
        /\ Len(call.requested) = 1
        /\ call.response \in Failures =>
               (raised # NoError /\ returned = None)

(* ------------------- queries and the iteration order ------------------- *)

AllQueryOps == QueryOps \cup {"find_valid_routes"}

\* The outcome of the query c on the network (aps, fls) when the sets of
\* flights are iterated in the order ord.
Outcome(aps, fls, c, ord) ==
    CASE c.op = "find_all_routes" ->
             find_all_routes(aps, fls, ord, c.from_code, c.to_code)
      [] c.op = "find_shortest_time_path" ->
             shortest_time(aps, fls, ord, c.from_code, c.to_code)
      [] c.op = "find_shortest_layover" ->
             find_shortest_layover(aps, fls, ord, c.from_code, c.to_code)
      [] c.op = "find_routes_by_airline" ->
             find_routes_by_airline(aps, fls, ord, c.from_code, c.to_code,
                                    c.airline)
      [] c.op = "find_valid_routes" ->
             LET r == find_valid_routes(aps, fls, ord, c.response,
                                        c.requested[1], c.from_code, c.to_code)
             IN  [raised |-> r.raised, returned |-> r.returned]

\* The set of routes in the outcome of the query c.
Routes(c, outcome) ==
    IF outcome.raised # NoError THEN {}
    ELSE IF c.op = "find_shortest_time_path" THEN {outcome.returned[1]}
    ELSE IF c.op = "find_shortest_layover" THEN {outcome.returned}
    ELSE {outcome.returned[i] : i \in DOMAIN outcome.returned}

\* What two outcomes of the same query agree on whatever the order: the set
\* of routes of an enumerating query, the duration of the shortest-time
\* route, the total layover of the shortest-layover route.
Measure(c, outcome) ==
    IF outcome.raised # NoError THEN <<outcome.raised>>
    ELSE IF c.op = "find_shortest_time_path" THEN <<outcome.returned[2]>>
    ELSE IF c.op = "find_shortest_layover"
    THEN <<total_layover(outcome.returned)>>
    ELSE <<Routes(c, outcome)>>

\* C16 as stated: a query repeated on the unchanged graph returns the same
\* set of routes whatever the order in which the sets of flights are
\* iterated.
C16_SameRoutesAnyOrder ==
    call.op \in AllQueryOps =>
        \A ord \in Orders(flights) :
            LET again == Outcome(airports, flights, call, ord)
            IN  /\ again.raised = raised
                /\ Routes(call, again) = ReturnedRoutes

\* C16, amended: no query changes airports or flights, and a query repeated
\* on the unchanged graph fails the same way or returns the same set of
\* routes whatever the iteration order, except that find_shortest_time_path
\* and find_shortest_layover agree on the duration, respectively the total
\* layover, of the route and not on the route itself.
C16_SameRoutesUpToTies ==
    [][call'.op \in AllQueryOps =>
          /\ airports' = airports
          /\ flights' = flights
          /\ \A ord \in Orders(flights') :
                Measure(call', Outcome(airports', flights', call', ord)) =
                    Measure(call', [raised |-> raised', returned |-> returned'])
      ]_vars

\* find_shortest_time_path has returned one of two parallel flights; in
\* another iteration order it returns the other one, with the same duration.
C16_Witness ==
    /\ call.op = "find_shortest_time_path"
    /\ raised = NoError
    /\ Len(returned[1]) = 1
    /\ \E ord \in Orders(flights) :
          LET again == Outcome(airports, flights, call, ord)
          IN  /\ again.returned[1][1].flight_number
                     # returned[1][1].flight_number
              /\ again.returned[2] = returned[2]

(* ------------------- the tie-break of the shortest time ---------------- *)

\* The place of a flight in an iteration order.
Position(order, flight) == CHOOSE i \in DOMAIN order : order[i] = flight

\* The depth-first search reaches route r1 before route r2: where the two
\* first differ, the flight of r1 comes first in the iteration order of the
\* set both flights are in.
ReachedBefore(r1, r2, ord) ==
    \E i \in DOMAIN r1 \cap DOMAIN r2 :
        /\ \A j \in 1..(i - 1) : r1[j] = r2[j]
        /\ r1[i] # r2[i]
        /\ Position(ord[r1[i].origin.icao], r1[i])
               < Position(ord[r2[i].origin.icao], r2[i])

\* The least of a non-empty set of durations.
Least(S) == CHOOSE x \in S : \A y \in S : x <= y

\* C18: among the routes of minimal total duration find_shortest_time_path
\* returns the one the depth-first search reaches first in the iteration
\* order; and every recursive call is entered with, as its bound, the least
\* duration of the routes completed before it (timedelta.max when there is
\* none), in whichever branch they were completed.
C18_FirstMinimalRouteWins ==
    (/\ call.op = "find_shortest_time_path"
     /\ raised = NoError
     /\ call.from_code # call.to_code) =>
        LET routes == SimpleRoutes(flights, call.from_code, call.to_code)
            entered == call.entered
            Completed(k) ==
                {FlightTime(entered[j].current_flights) :
                    j \in {i \in 1..(k - 1) :
                              entered[i].start_code = call.to_code}}
        IN  /\ routes # {} =>
                /\ returned[1] \in routes
                /\ \A route \in routes \ {returned[1]} :
                      \/ FlightTime(returned[1]) < FlightTime(route)
                      \/ /\ FlightTime(returned[1]) = FlightTime(route)
                         /\ ReachedBefore(returned[1], route, call.ord)
            /\ \A k \in DOMAIN entered :
                   entered[k].bound = Least({timedelta_max} \cup Completed(k))

\* A direct flight was found first; the search then entered a sibling
\* branch with the duration of that flight as its bound, and the route of
\* equal duration through that branch did not replace it.
C18_Witness ==
    /\ call.op = "find_shortest_time_path"
    /\ raised = NoError
    /\ Len(returned[1]) = 1
    /\ \E route \in SimpleRoutes(flights, call.from_code, call.to_code) :
          /\ Len(route) = 2
          /\ FlightTime(route) = returned[2]
          /\ \E k \in DOMAIN call.entered :
                /\ call.entered[k].current_flights = <<route[1]>>
                /\ call.entered[k].bound = returned[2]

(* ----------------------- depth of the recursion ----------------------- *)

\* The number of calls of find_paths that are active after the first k
\* calls and returns.
Nesting(frames, k) ==
    Cardinality({i \in 1..k : frames[i].event = "call"})
        - Cardinality({i \in 1..k : frames[i].event = "return"})

\* The call that the return at place k of frames returns from.
CallOf(frames, k) ==
    CHOOSE j \in 1..(k - 1) :
        /\ frames[j].event = "call"
        /\ Nesting(frames, j) = Nesting(frames, k) + 1
        /\ \A i \in (j + 1)..(k - 1) : Nesting(frames, i) >= Nesting(frames, j)

\* C19: find_all_routes and find_shortest_time_path return on every network,
\* with cycles and parallel flights; no more calls are nested than there are
\* registered airports; every call of find_paths returns with visited and
\* paths as they were when it was entered, and every call has returned.
C19_RecursionIsBounded ==
    (call.op \in {"find_all_routes", "find_shortest_time_path"}
         /\ raised = NoError) =>
        IF call.op = "find_all_routes"
        THEN LET frames == call.frames
             IN  /\ Nesting(frames, Len(frames)) = 0
                 /\ \A k \in DOMAIN frames :
                       /\ Nesting(frames, k) <= Cardinality(DOMAIN airports)
                       /\ frames[k].event = "return" =>
                              /\ frames[CallOf(frames, k)].current_code =
                                     frames[k].current_code
                              /\ frames[CallOf(frames, k)].paths =
                                     frames[k].paths
                              /\ frames[CallOf(frames, k)].visited =
                                     frames[k].visited
        ELSE \A k \in DOMAIN call.entered :
                 Len(call.entered[k].current_flights) + 1
                     <= Cardinality(DOMAIN airports)

\* find_all_routes has returned from a network with a cycle and two
\* parallel flights, after as many nested calls as there are airports.
C19_Witness ==
    /\ call.op = "find_all_routes"
    /\ raised = NoError
    /\ \E k \in DOMAIN call.frames :
          Nesting(call.frames, k) = Cardinality(DOMAIN airports)
    /\ \E f1, f2 \in AllFlights(flights) :
          /\ f1 # f2
          /\ f1.origin.icao = f2.origin.icao
          /\ f1.destination.icao = f2.destination.icao
    /\ \E f1, f2 \in AllFlights(flights) :
          /\ f1.origin.icao = f2.destination.icao
          /\ f2.origin.icao = f1.destination.icao
          /\ f1.origin.icao # f1.destination.icao

====
